---------------------------- MODULE Spec2Model ----------------------------
(***************************************************************************)
(* A model of the DEFLATE bit emitter of gziper (src/src/deflate.rs): the  *)
(* DeflateWriter, its write_bits / write / new_*_block / drop handlers and *)
(* the deflate driver loop.  The tokenizer, the block splitter and the     *)
(* Huffman code builder live in sibling files of the crate; they are       *)
(* modelled from the specification's sections 4.1, 4.2 and 4.4.            *)
(***************************************************************************)
EXTENDS Integers, Sequences, FiniteSets, TLC

VARIABLES
    file,            \* deflate: the input bytes
    blocks,          \* deflate: the Vec<Block> returned by block_split
    i,               \* deflate: number of blocks begun (loop index + 1)
    j,               \* deflate: tokens of block i already written
    pc,              \* deflate: "loop", "unwind" (a panic unwinds), "returned",
                     \* "panicked", "aborted" (a second panic while unwinding)
    out,             \* the sink: bytes it accepted, in order
    curr_bytes,      \* DeflateWriter.curr_bytes  (u32)
    curr_full_bits,  \* DeflateWriter.curr_full_bits (u8)
    literal_tree,    \* DeflateWriter.literal_tree
    distance_tree,   \* DeflateWriter.distance_tree
    in_block,        \* DeflateWriter.in_block
    sink_broken,     \* the sink: TRUE once it fails every later write
    attempts,        \* history: number of write_all calls made on the sink
    failed_at,       \* history: value of attempts at the first failed write_all (0: none)
    calls,           \* history: the <<bits, len>> arguments of every write_bits call
    overflow_checks  \* the build: TRUE when integer overflow panics (debug profile)

vars == <<file, blocks, i, j, pc, out, curr_bytes, curr_full_bits, literal_tree,
          distance_tree, in_block, sink_broken, attempts, failed_at, calls,
          overflow_checks>>

(***************************************************************************)
(* Bounds of the model.                                                    *)
(***************************************************************************)
MaxBlocks == 2
MaxTokens == 2
MaxFail == 1
MaxCalls == 3

(***************************************************************************)
(* Tables.                                                                 *)
(***************************************************************************)
\* LEN_TO_CODE with the end of the row of code 284 one short: 257 falls in no row
\* that starts at or below it
LEN_TO_CODE_short_row ==
    << <<3, 4, 0, 257>>, <<4, 5, 0, 258>>, <<5, 6, 0, 259>>, <<6, 7, 0, 260>>,
       <<7, 8, 0, 261>>, <<8, 9, 0, 262>>, <<9, 10, 0, 263>>, <<10, 11, 0, 264>>,
       <<11, 13, 1, 265>>, <<13, 15, 1, 266>>, <<15, 17, 1, 267>>, <<17, 19, 1, 268>>,
       <<19, 23, 2, 269>>, <<23, 27, 2, 270>>, <<27, 31, 2, 271>>, <<31, 35, 2, 272>>,
       <<35, 43, 3, 273>>, <<43, 51, 3, 274>>, <<51, 59, 3, 275>>, <<59, 67, 3, 276>>,
       <<67, 83, 4, 277>>, <<83, 99, 4, 278>>, <<99, 115, 4, 279>>, <<115, 131, 4, 280>>,
       <<131, 163, 5, 281>>, <<163, 195, 5, 282>>, <<195, 227, 5, 283>>,
       <<227, 257, 5, 284>>, <<258, 259, 0, 285>> >>

LEN_TO_CODE ==
    << <<3, 4, 0, 257>>, <<4, 5, 0, 258>>, <<5, 6, 0, 259>>, <<6, 7, 0, 260>>,
       <<7, 8, 0, 261>>, <<8, 9, 0, 262>>, <<9, 10, 0, 263>>, <<10, 11, 0, 264>>,
       <<11, 13, 1, 265>>, <<13, 15, 1, 266>>, <<15, 17, 1, 267>>, <<17, 19, 1, 268>>,
       <<19, 23, 2, 269>>, <<23, 27, 2, 270>>, <<27, 31, 2, 271>>, <<31, 35, 2, 272>>,
       <<35, 43, 3, 273>>, <<43, 51, 3, 274>>, <<51, 59, 3, 275>>, <<59, 67, 3, 276>>,
       <<67, 83, 4, 277>>, <<83, 99, 4, 278>>, <<99, 115, 4, 279>>, <<115, 131, 4, 280>>,
       <<131, 163, 5, 281>>, <<163, 195, 5, 282>>, <<195, 227, 5, 283>>,
       <<227, 258, 5, 284>>, <<258, 259, 0, 285>> >>

DIST_TO_CODE ==
    << <<1, 2, 0, 0>>, <<2, 3, 0, 1>>, <<3, 4, 0, 2>>, <<4, 5, 0, 3>>,
       <<5, 7, 1, 4>>, <<7, 9, 1, 5>>, <<9, 13, 2, 6>>, <<13, 17, 2, 7>>,
       <<17, 25, 3, 8>>, <<25, 33, 3, 9>>, <<33, 49, 4, 10>>, <<49, 65, 4, 11>>,
       <<65, 97, 5, 12>>, <<97, 129, 5, 13>>, <<129, 193, 6, 14>>, <<193, 257, 6, 15>>,
       <<257, 385, 7, 16>>, <<385, 513, 7, 17>>, <<513, 769, 8, 18>>, <<769, 1025, 8, 19>>,
       <<1025, 1537, 9, 20>>, <<1537, 2049, 9, 21>>, <<2049, 3073, 10, 22>>,
       <<3073, 4097, 10, 23>>, <<4097, 6145, 11, 24>>, <<6145, 8193, 11, 25>>,
       <<8193, 12289, 12, 26>>, <<12289, 16385, 12, 27>>, <<16385, 24577, 13, 28>>,
       <<24577, 32769, 13, 29>> >>

\* huffman::LITERAL_FIXED_CODES: [8]*144 + [9]*112 + [7]*24 + [8]*8
LITERAL_FIXED_CODES ==
    [s \in 1..288 |-> IF s <= 144 THEN 8 ELSE IF s <= 256 THEN 9
                      ELSE IF s <= 280 THEN 7 ELSE 8]

\* huffman::DISTANCE_FIXED_CODES: [5]*30
DISTANCE_FIXED_CODES == [s \in 1..30 |-> 5]

code_len_of_code_order ==
    <<16, 17, 18, 0, 8, 7, 9, 6, 10, 5, 11, 4, 12, 3, 13, 2, 14, 1, 15>>

code_len_of_code == <<4, 4, 4, 4, 4, 4, 4, 4, 4, 4, 4, 4, 4, 4, 4, 4, 0, 0, 0>>

(***************************************************************************)
(* Machine arithmetic.                                                     *)
(***************************************************************************)
Pow2(n) == 2 ^ n

\* A u32 is held as <<high 16 bits, low 16 bits>>: the model checker's own
\* integers stop below 2^31.
U32(n) == <<n \div Pow2(16), n % Pow2(16)>>

\* the value of a u32 below 2^31
Nat32(v) == v[1] * Pow2(16) + v[2]

\* the shift in an accumulator 16 bits wide: the bits shifted past bit 15 are dropped
Shl32_narrow(v, s) ==
    IF s < 16 THEN <<0, (v[2] * Pow2(s)) % Pow2(16)>> ELSE <<0, 0>>

\* u32 << s, for s < 32: the bits shifted past bit 31 are dropped
Shl32(v, s) ==
    IF s = 0 THEN v
    ELSE IF s < 16
         THEN <<((v[1] * Pow2(s)) % Pow2(16)) + (v[2] \div Pow2(16 - s)),
                (v[2] * Pow2(s)) % Pow2(16)>>
         ELSE <<(v[2] * Pow2(s - 16)) % Pow2(16), 0>>

\* the accumulator left as it is when a byte has gone out
Shr8_skipped(v) == v

\* u32 >> 8
Shr8(v) == <<v[1] \div 256, (v[2] \div 256) + ((v[1] % 256) * 256)>>

\* bitwise OR of two naturals
RECURSIVE BitOr(_, _)
BitOr(a, b) ==
    IF a = 0 THEN b
    ELSE IF b = 0 THEN a
    ELSE (IF a % 2 = 1 \/ b % 2 = 1 THEN 1 ELSE 0) + 2 * BitOr(a \div 2, b \div 2)

\* u32 | u32
Or32(a, b) == <<BitOr(a[1], b[1]), BitOr(a[2], b[2])>>

\* u32 a - b wrapped around 2^32, for a < b
WrappedSub32(a, b) ==
    <<Pow2(16) - 1 - ((b - a - 1) \div Pow2(16)), Pow2(16) - 1 - ((b - a - 1) % Pow2(16))>>

\* the `bits` reversed within `n` bits
RECURSIVE ReverseBits(_, _)
ReverseBits(bits, n) ==
    IF n = 0 THEN 0
    ELSE (bits % 2) * Pow2(n - 1) + ReverseBits(bits \div 2, n - 1)

(***************************************************************************)
(* huffman::calc_codes, from the specification's section 4.4: canonical    *)
(* codes by ascending length then ascending symbol, stored bit-reversed.   *)
(* A tree is the sequence of HuffmanCode records, symbol s at index s + 1. *)
(***************************************************************************)
HuffmanCode(code, length) == [code |-> code, length |-> length]

LengthCount(lens, n) == Cardinality({k \in 1..Len(lens) : lens[k] = n})

next_code(lens) ==
    LET count == [n \in 0..15 |-> IF n = 0 THEN 0 ELSE LengthCount(lens, n)]
        nc[n \in 1..15] == IF n = 1 THEN 0 ELSE 2 * (nc[n - 1] + count[n - 1])
    IN  [n \in 1..15 |-> nc[n]]

\* the symbols below symbol index k that have k's length were assigned first
EarlierOfLength(lens, k) == Cardinality({m \in 1..(k - 1) : lens[m] = lens[k]})

calc_codes(lens) ==
    LET nc == next_code(lens)
    IN  [k \in 1..Len(lens) |->
            IF lens[k] = 0 THEN HuffmanCode(0, 0)
            ELSE HuffmanCode(ReverseBits(nc[lens[k]] + EarlierOfLength(lens, k), lens[k]),
                             lens[k])]

LiteralFixedTree == calc_codes(LITERAL_FIXED_CODES)
DistanceFixedTree == calc_codes(DISTANCE_FIXED_CODES)
CodeLenTree == calc_codes(code_len_of_code)


(***************************************************************************)
(* The writer while a handler runs: the DeflateWriter's bit buffer and the *)
(* sink, with the handler's panic state and the write_bits calls it made.  *)
(* plan = k > 0 makes the k-th write_all of this handler fail (the sink's  *)
(* choice); persist makes the sink fail from then on.                      *)
(***************************************************************************)
Writer(plan, persist) ==
    [out |-> out, curr_bytes |-> curr_bytes, curr_full_bits |-> curr_full_bits,
     attempts |-> attempts, failed_at |-> failed_at, calls |-> <<>>,
     broken |-> sink_broken, panic |-> "none",
     plan |-> plan, persist |-> persist, n |-> 0]

\* what a sink that fails may do afterwards: recover, or stay broken
SinkOutcomes(plan) == IF plan = 0 THEN {FALSE} ELSE BOOLEAN

\* self.out.write_all(&[(self.curr_bytes & 0xFF) as u8]).unwrap()
write_all_unwrap(w) ==
    IF w.broken \/ (w.plan # 0 /\ w.n + 1 = w.plan)
    THEN [w EXCEPT !.attempts = @ + 1, !.n = @ + 1,
                   !.failed_at = IF @ = 0 THEN w.attempts + 1 ELSE @,
                   !.broken = @ \/ w.persist,
                   !.panic = "unwrap"]
    ELSE [w EXCEPT !.attempts = @ + 1, !.n = @ + 1,
                   !.out = Append(@, w.curr_bytes[2] % 256)]

\* write_bits with `if` in place of `while`: at most one byte leaves per call
flush_one_byte(w) ==
    IF w.panic = "none" /\ w.curr_full_bits >= 8
    THEN LET t == write_all_unwrap(w)
         IN  IF t.panic # "none" THEN t
             ELSE [t EXCEPT !.curr_bytes = Shr8(@), !.curr_full_bits = @ - 8]
    ELSE w

\* the while loop of write_bits
RECURSIVE flush_full_bytes(_)
flush_full_bytes(w) ==
    IF w.panic = "none" /\ w.curr_full_bits >= 8
    THEN LET t == write_all_unwrap(w)
         IN  IF t.panic # "none" THEN t
             ELSE flush_full_bytes([t EXCEPT !.curr_bytes = Shr8(@),
                                             !.curr_full_bits = @ - 8])
    ELSE w

\* write_bits that ors the value in at bit 0 instead of at the next free bit
write_bits_unshifted(w, bits, len) ==
    IF w.panic # "none" THEN w
    ELSE LET logged == [w EXCEPT !.calls = Append(@, <<bits, len>>)]
             sum == w.curr_full_bits + len
         IN  IF overflow_checks /\ (w.curr_full_bits >= 32 \/ sum > 255)
             THEN [logged EXCEPT !.panic = "overflow"]
             ELSE flush_full_bytes(
                      [logged EXCEPT !.curr_bytes = Or32(@, bits),
                                     !.curr_full_bits = sum % 256])

\* With overflow checks the shift of line 57 panics before anything changes
\* when curr_full_bits >= 32, and the u8 add of line 58 panics after line 57
\* has or-ed the value in; without them the shift count is taken modulo 32 and
\* the add wraps.
write_bits(w, bits, len) ==
    IF w.panic # "none" THEN w
    ELSE LET logged == [w EXCEPT !.calls = Append(@, <<bits, len>>)]
             sum == w.curr_full_bits + len
             ored == [logged EXCEPT
                         !.curr_bytes = Or32(@, Shl32(bits, w.curr_full_bits % 32))]
         IN  IF overflow_checks /\ w.curr_full_bits >= 32
             THEN [logged EXCEPT !.panic = "overflow"]
             ELSE IF overflow_checks /\ sum > 255
             THEN [ored EXCEPT !.panic = "overflow"]
             ELSE flush_full_bytes([ored EXCEPT !.curr_full_bits = sum % 256])

\* let huffman_code = tree[sym]; self.write_bits(huffman_code.code, huffman_code.length)
write_code(w, tree, sym) ==
    IF w.panic # "none" THEN w
    ELSE IF sym + 1 > Len(tree) THEN [w EXCEPT !.panic = "index"]
    ELSE write_bits(w, U32(tree[sym + 1].code), tree[sym + 1].length)

\* the lookup with `<=` in place of `<`: the first row whose end reaches v
FirstRowInclusive(table, v) ==
    LET hit == {k \in 1..Len(table) : v <= table[k][2]}
    IN  IF hit = {} THEN 0 ELSE CHOOSE k \in hit : \A m \in hit : k <= m

\* the first row of a table whose end exceeds v (0: the loop finds none)
FirstRow(table, v) ==
    LET hit == {k \in 1..Len(table) : v < table[k][2]}
    IN  IF hit = {} THEN 0 ELSE CHOOSE k \in hit : \A m \in hit : k <= m

\* u32 subtraction a - b of the extra bits, then write_bits(a - b, extra_bits)
write_extra(w, a, b, extra_bits) ==
    IF w.panic # "none" THEN w
    ELSE IF a < b
         THEN IF overflow_checks THEN [w EXCEPT !.panic = "overflow"]
              ELSE write_bits(w, WrappedSub32(a, b), extra_bits)
         ELSE write_bits(w, U32(a - b), extra_bits)

\* one `for row in table { if v < end { ...; break } }` loop of write
write_row(w, table, tree, v) ==
    LET r == FirstRow(table, v)
    IN  IF r = 0 THEN w
        ELSE write_extra(write_code(w, tree, table[r][4]), v, table[r][1], table[r][3])

write(w, token) ==
    IF token[1] = "Literal"
    THEN write_code(w, literal_tree, token[2])
    ELSE write_row(write_row(w, LEN_TO_CODE, literal_tree, token[2]),
                   DIST_TO_CODE, distance_tree, token[3])

\* a block begun without ending the one before
end_of_block_skipped(w) == w

\* if self.in_block { write the end of block }
end_of_block(w) == IF in_block THEN write_code(w, literal_tree, 256) ELSE w

\* a fixed block header with the two BTYPE bits in the other order
new_fixed_codes_block_btype_swapped(w, is_final) ==
    write_bits(write_bits(write_bits(end_of_block(w),
        U32(IF is_final THEN 1 ELSE 0), 1), U32(0), 1), U32(1), 1)

new_fixed_codes_block(w, is_final) ==
    write_bits(write_bits(write_bits(end_of_block(w),
        U32(IF is_final THEN 1 ELSE 0), 1), U32(1), 1), U32(0), 1)

\* a `for i in lo-1..hi` loop whose body is step(w, i), run in two halves; a
\* panic in the body ends the loop
RECURSIVE for_each(_, _, _, _)
for_each(step(_, _), w, lo, hi) ==
    IF lo > hi THEN w
    ELSE IF lo = hi THEN step(w, lo)
    ELSE LET first == for_each(step, w, lo, (lo + hi) \div 2)
         IN  IF first.panic # "none" THEN first
             ELSE for_each(step, first, (lo + hi) \div 2 + 1, hi)

\* the nineteen lengths written in symbol order, not in code_len_of_code_order
write_code_len_lens_unpermuted(w) ==
    LET step(v, k) == write_bits(v, U32(code_len_of_code[k]), 3)
    IN  for_each(step, w, 1, 19)

\* for i in 0..19 { self.write_bits(code_len_of_code[code_len_of_code_order[i]], 3) }
write_code_len_lens(w) ==
    LET step(v, k) == write_bits(v, U32(code_len_of_code[code_len_of_code_order[k] + 1]), 3)
    IN  for_each(step, w, 1, 19)

\* for i in 0..count { write the code_len_tree code of lens[i] }
write_code_lens(w, lens, count) ==
    LET step(v, k) == IF v.panic # "none" THEN v
                      ELSE IF k > Len(lens) THEN [v EXCEPT !.panic = "index"]
                      ELSE write_code(v, CodeLenTree, lens[k])
    IN  for_each(step, w, 1, count)

new_dynamic_codes_block(w, is_final, literal_code_lens, distance_code_lens) ==
    LET header == write_bits(write_bits(write_bits(end_of_block(w),
                      U32(IF is_final THEN 1 ELSE 0), 1), U32(0), 1), U32(1), 1)
        counts == write_bits(write_bits(write_bits(header,
                      U32(286 - 257), 5), U32(30 - 1), 5), U32(19 - 4), 4)
        cl     == write_code_len_lens(counts)
        lit    == write_code_lens(cl, literal_code_lens, 286)
    IN  write_code_lens(lit, distance_code_lens, 30)

\* a final flush that writes a byte even when no bit is buffered
final_flush_always(w) ==
    IF w.panic = "none" THEN write_all_unwrap(w) ELSE w

\* if self.curr_full_bits > 0 { write the partial byte }
final_flush(w) ==
    IF w.panic = "none" /\ w.curr_full_bits > 0 THEN write_all_unwrap(w) ELSE w

\* a teardown that leaves the buffered bits behind
drop_without_flush(w) == write_code(w, literal_tree, 256)

\* Drop::drop: the end of block, then the partial byte
drop(w) == final_flush(write_code(w, literal_tree, 256))


(***************************************************************************)
(* The inputs of the emitter.  lempel_ziv and block_split are modelled by  *)
(* their contracts (specification 4.1 and 4.2): any token sequence over a  *)
(* small alphabet that reconstructs the file, cut into a non-empty list of *)
(* blocks, a dynamic block carrying a complete prefix code fitted to the   *)
(* symbols it uses.                                                        *)
(***************************************************************************)
Literal(b) == <<"Literal", b>>
Repeat(len, dist) == <<"Repeat", len, dist>>

LiteralBytes == {97, 200}
RepeatPairs == {<<12, 1>>, <<258, 5>>}
BadRepeatPairs == {<<2, 1>>, <<259, 1>>, <<3, 0>>, <<3, 32769>>}

Tokens == {Literal(b) : b \in LiteralBytes} \cup {Repeat(p[1], p[2]) : p \in RepeatPairs}
BadTokens == {Repeat(p[1], p[2]) : p \in BadRepeatPairs}

SeqsUpTo(S, n) == UNION {[1..m -> S] : m \in 0..n}

\* the bytes a token sequence stands for; a copy reaches back dist bytes
CopyBack(bytes, len, dist) ==
    LET n == Len(bytes)
    IN  [k \in 1..(n + len) |-> IF k <= n THEN bytes[k]
                                ELSE bytes[n - dist + 1 + ((k - n - 1) % dist)]]

RECURSIVE Reconstruct(_, _, _)
Reconstruct(tokens, k, bytes) ==
    IF k > Len(tokens) THEN bytes
    ELSE IF tokens[k][1] = "Literal"
         THEN Reconstruct(tokens, k + 1, Append(bytes, tokens[k][2]))
         ELSE Reconstruct(tokens, k + 1, CopyBack(bytes, tokens[k][2], tokens[k][3]))

\* no copy reaches back before the start of the file
RECURSIVE InWindow(_, _, _)
InWindow(tokens, k, n) ==
    IF k > Len(tokens) THEN TRUE
    ELSE IF tokens[k][1] = "Literal" THEN InWindow(tokens, k + 1, n + 1)
    ELSE tokens[k][3] <= n /\ InWindow(tokens, k + 1, n + tokens[k][2])

\* lempel_ziv(file): the token sequences it may return
lempel_ziv == {t \in SeqsUpTo(Tokens, MaxBlocks * MaxTokens) : InWindow(t, 1, 0)}

\* the literal/length and the distance symbols a token sequence uses
LiteralSymbols(tokens) ==
    {256} \cup {tokens[k][2] : k \in {m \in 1..Len(tokens) : tokens[m][1] = "Literal"}}
          \cup {LEN_TO_CODE[FirstRow(LEN_TO_CODE, tokens[k][2])][4] :
                    k \in {m \in 1..Len(tokens) :
                              /\ tokens[m][1] = "Repeat"
                              /\ FirstRow(LEN_TO_CODE, tokens[m][2]) # 0}}

DistanceSymbols(tokens) ==
    LET used == {DIST_TO_CODE[FirstRow(DIST_TO_CODE, tokens[k][3])][4] :
                    k \in {m \in 1..Len(tokens) :
                              /\ tokens[m][1] = "Repeat"
                              /\ FirstRow(DIST_TO_CODE, tokens[m][3]) # 0}}
    IN  IF used = {} THEN {0} ELSE used

\* code lengths 1, 2, ..., k-1, k-1 over the k used symbols in ascending order
FittedCodeLens(used, size) ==
    LET k == Cardinality(used)
        rank(s) == Cardinality({u \in used : u <= s})
    IN  [s \in 1..size |-> IF s - 1 \notin used THEN 0
                           ELSE IF k = 1 THEN 1
                           ELSE IF rank(s - 1) < k THEN rank(s - 1) ELSE k - 1]

FixedCodes(tokens) ==
    [kind |-> "FixedCodes", tokens |-> tokens,
     literal_code_lens |-> <<>>, distance_code_lens |-> <<>>]

DynamicCodes(tokens) ==
    [kind |-> "DynamicCodes", tokens |-> tokens,
     literal_code_lens |-> FittedCodeLens(LiteralSymbols(tokens), 286),
     distance_code_lens |-> FittedCodeLens(DistanceSymbols(tokens), 30)]

\* tokens[from..to)
Slice(tokens, from, to) == [k \in 1..(to - from) |-> tokens[from + k - 1]]

BlockOf(tokens) == {FixedCodes(tokens), DynamicCodes(tokens)}

\* the lists of 1 to nb blocks, of at most MaxTokens tokens each, that hold `tokens`
RECURSIVE Splits(_, _)
Splits(tokens, nb) ==
    IF nb = 0 THEN {}
    ELSE LET n == Len(tokens)
         IN  (IF n <= MaxTokens THEN {<<b>> : b \in BlockOf(tokens)} ELSE {})
             \cup UNION {
                    {<<a>> \o rest : a \in BlockOf(Slice(tokens, 1, c + 1)),
                                     rest \in Splits(Slice(tokens, c + 1, n + 1), nb - 1)} :
                    c \in {d \in 0..n : d <= MaxTokens}}

\* block_split(tokens): the block lists it may return
block_split(tokens) == Splits(tokens, MaxBlocks)

(***************************************************************************)
(* deflate: the state after DeflateWriter::new, and one action per handler *)
(* the loop calls.                                                         *)
(***************************************************************************)
NewWriter ==
    /\ i = 0
    /\ j = 0
    /\ out = <<>>
    /\ curr_bytes = U32(0)
    /\ curr_full_bits = 0
    /\ literal_tree = <<>>
    /\ distance_tree = <<>>
    /\ in_block = FALSE
    /\ sink_broken = FALSE
    /\ attempts = 0
    /\ failed_at = 0
    /\ calls = <<>>

Init ==
    /\ \E tokens \in lempel_ziv :
          /\ file = Reconstruct(tokens, 1, <<>>)
          /\ blocks \in block_split(tokens)
    /\ overflow_checks \in BOOLEAN
    /\ NewWriter
    /\ pc = "loop"

\* the writer's and the sink's state after a handler ran as w; the handler
\* returned to `returned`, or panicked to `panicked`
Commit(w, returned, panicked) ==
    /\ out' = w.out
    /\ curr_bytes' = w.curr_bytes
    /\ curr_full_bits' = w.curr_full_bits
    /\ attempts' = w.attempts
    /\ failed_at' = w.failed_at
    /\ calls' = calls \o w.calls
    /\ sink_broken' = w.broken
    /\ pc' = IF w.panic = "none" THEN returned ELSE panicked

AtBlockEnd == IF i = 0 THEN TRUE ELSE j = Len(blocks[i].tokens)

NewFixedCodesBlock ==
    /\ pc = "loop"
    /\ AtBlockEnd
    /\ i < Len(blocks)
    /\ blocks[i + 1].kind = "FixedCodes"
    /\ \E plan \in 0..MaxFail : \E persist \in SinkOutcomes(plan) :
          LET w == new_fixed_codes_block(Writer(plan, persist), i + 1 = Len(blocks))
          IN  /\ Commit(w, "loop", "unwind")
              /\ literal_tree' = IF w.panic = "none" THEN LiteralFixedTree ELSE literal_tree
              /\ distance_tree' = IF w.panic = "none" THEN DistanceFixedTree ELSE distance_tree
    /\ in_block' = TRUE
    /\ i' = i + 1
    /\ j' = 0
    /\ UNCHANGED <<file, blocks, overflow_checks>>

NewDynamicCodesBlock ==
    /\ pc = "loop"
    /\ AtBlockEnd
    /\ i < Len(blocks)
    /\ blocks[i + 1].kind = "DynamicCodes"
    /\ \E plan \in 0..MaxFail : \E persist \in SinkOutcomes(plan) :
          LET b == blocks[i + 1]
              w == new_dynamic_codes_block(Writer(plan, persist), i + 1 = Len(blocks),
                                           b.literal_code_lens, b.distance_code_lens)
          IN  /\ Commit(w, "loop", "unwind")
              /\ literal_tree' = IF w.panic = "none" THEN calc_codes(b.literal_code_lens)
                                 ELSE literal_tree
              /\ distance_tree' = IF w.panic = "none" THEN calc_codes(b.distance_code_lens)
                                  ELSE distance_tree
    /\ in_block' = TRUE
    /\ i' = i + 1
    /\ j' = 0
    /\ UNCHANGED <<file, blocks, overflow_checks>>

\* a write that leaves the block closed
Write_closes_block ==
    /\ pc = "loop"
    /\ i >= 1
    /\ j < Len(blocks[i].tokens)
    /\ \E plan \in 0..MaxFail : \E persist \in SinkOutcomes(plan) :
          Commit(write(Writer(plan, persist), blocks[i].tokens[j + 1]), "loop", "unwind")
    /\ j' = j + 1
    /\ in_block' = FALSE
    /\ UNCHANGED <<file, blocks, i, literal_tree, distance_tree,
                   overflow_checks>>

Write ==
    /\ pc = "loop"
    /\ i >= 1
    /\ j < Len(blocks[i].tokens)
    /\ \E plan \in 0..MaxFail : \E persist \in SinkOutcomes(plan) :
          Commit(write(Writer(plan, persist), blocks[i].tokens[j + 1]), "loop", "unwind")
    /\ j' = j + 1
    /\ UNCHANGED <<file, blocks, i, literal_tree, distance_tree, in_block,
                   overflow_checks>>

\* the writer goes out of scope: at the end of deflate, or while a panic unwinds
Drop ==
    /\ \/ pc = "loop" /\ i = Len(blocks) /\ AtBlockEnd
       \/ pc = "unwind"
    /\ \E plan \in 0..MaxFail : \E persist \in SinkOutcomes(plan) :
          IF pc = "loop"
          THEN Commit(drop(Writer(plan, persist)), "returned", "panicked")
          ELSE Commit(drop(Writer(plan, persist)), "panicked", "aborted")
    /\ UNCHANGED <<file, blocks, i, j, literal_tree, distance_tree, in_block,
                   overflow_checks>>

Next == NewFixedCodesBlock \/ NewDynamicCodesBlock \/ Write \/ Drop

Spec == Init /\ [][Next]_vars


(***************************************************************************)
(* write_bits on its own: a writer fresh from DeflateWriter::new begins    *)
(* one final fixed block, then takes write_bits calls of any of the values *)
(* and bit counts below in place of the tokens' calls, and is dropped.     *)
(* The bit counts go past the 16 the comment of line 56 allows, the values *)
(* past what their bit count holds.                                        *)
(***************************************************************************)
BitsValues == {U32(1), U32(43690), U32(33554432)}
BitCounts == {1, 4, 9, 16, 26}

InitBits ==
    /\ file = <<>>
    /\ blocks = <<FixedCodes(<<>>)>>
    /\ overflow_checks \in BOOLEAN
    /\ NewWriter
    /\ pc = "loop"

\* one write_bits call on the writer of the block begun; its panic unwinds
\* through the writer's drop as any handler's does
WriteBitsCall ==
    /\ pc = "loop"
    /\ in_block
    /\ Len(calls) < 3 + MaxCalls
    /\ \E bits \in BitsValues, len \in BitCounts :
          \E plan \in 0..MaxFail : \E persist \in SinkOutcomes(plan) :
             Commit(write_bits(Writer(plan, persist), bits, len), "loop", "unwind")
    /\ UNCHANGED <<file, blocks, i, j, literal_tree, distance_tree, in_block,
                   overflow_checks>>

NextBits == NewFixedCodesBlock \/ WriteBitsCall \/ Drop

SpecBits == InitBits /\ [][NextBits]_vars

(***************************************************************************)
(* deflate on one final fixed block that holds one Repeat token, over      *)
(* every length and every distance of the format: write runs its two table *)
(* loops on each of them.                                                  *)
(***************************************************************************)
InitTables ==
    /\ file = <<>>
    /\ blocks \in {<<FixedCodes(<<Repeat(l, 1)>>)>> : l \in 3..258} \cup
                  {<<FixedCodes(<<Repeat(3, d)>>)>> : d \in 1..32768}
    /\ overflow_checks \in BOOLEAN
    /\ NewWriter
    /\ pc = "loop"

NextTables == NewFixedCodesBlock \/ Write \/ Drop

SpecTables == InitTables /\ [][NextTables]_vars

(***************************************************************************)
(* deflate on block lists the tokenizer's and the splitter's contracts     *)
(* rule out: no block at all, or one block with tokens out of range.       *)
(***************************************************************************)
InitAny ==
    /\ file = <<>>
    /\ blocks \in {<<>>} \cup
                  {<<b>> : b \in UNION {BlockOf(t) :
                                   t \in SeqsUpTo(Tokens \cup BadTokens, MaxTokens)}}
    /\ overflow_checks \in BOOLEAN
    /\ NewWriter
    /\ pc = "loop"

SpecAny == InitAny /\ [][Next]_vars

(***************************************************************************)
(* deflate on one block that holds one Repeat token: every length of the   *)
(* table's range, with distances at the ends of the range and at row       *)
(* boundaries, under fixed codes and under codes fitted to the token.      *)
(***************************************************************************)
RepeatDists == {1, 5, 24577, 32768}

InitRepeat ==
    /\ file = <<>>
    /\ blocks \in {<<b>> : b \in UNION {BlockOf(<<Repeat(l, d)>>) :
                                   l \in 3..258, d \in RepeatDists}}
    /\ overflow_checks \in BOOLEAN
    /\ NewWriter
    /\ pc = "loop"

SpecRepeat == InitRepeat /\ [][Next]_vars

(***************************************************************************)
(* The reference decoder of RFC 1951 the round trip is judged by.  It      *)
(* shares nothing with the emitter: it reads codes bit by bit, most        *)
(* significant code bit first, from the canonical code its code lengths    *)
(* define, and carries its own length and distance tables (RFC 1951,       *)
(* section 3.2.5).                                                         *)
(***************************************************************************)
RfcLengthBase ==
    <<3, 4, 5, 6, 7, 8, 9, 10, 11, 13, 15, 17, 19, 23, 27, 31, 35, 43, 51, 59,
      67, 83, 99, 115, 131, 163, 195, 227, 258>>
RfcLengthExtra ==
    <<0, 0, 0, 0, 0, 0, 0, 0, 1, 1, 1, 1, 2, 2, 2, 2, 3, 3, 3, 3,
      4, 4, 4, 4, 5, 5, 5, 5, 0>>
RfcDistBase ==
    <<1, 2, 3, 4, 5, 7, 9, 13, 17, 25, 33, 49, 65, 97, 129, 193, 257, 385, 513, 769,
      1025, 1537, 2049, 3073, 4097, 6145, 8193, 12289, 16385, 24577>>
RfcDistExtra ==
    <<0, 0, 0, 0, 1, 1, 2, 2, 3, 3, 4, 4, 5, 5, 6, 6, 7, 7, 8, 8,
      9, 9, 10, 10, 11, 11, 12, 12, 13, 13>>
RfcCodeLengthOrder ==
    <<16, 17, 18, 0, 8, 7, 9, 6, 10, 5, 11, 4, 12, 3, 13, 2, 14, 1, 15>>
RfcFixedLiteralLengths ==
    [s \in 1..288 |-> IF s - 1 <= 143 THEN 8 ELSE IF s - 1 <= 255 THEN 9
                      ELSE IF s - 1 <= 279 THEN 7 ELSE 8]
RfcFixedDistLengths == [s \in 1..30 |-> 5]

BitCount(bytes) == 8 * Len(bytes)

\* bit p of the stream: bytes in order, each from its least significant bit
StreamBit(bytes, p) == (bytes[(p \div 8) + 1] \div Pow2(p % 8)) % 2

\* the n-bit field at bit p, least significant bit first
RECURSIVE StreamField(_, _, _)
StreamField(bytes, p, n) ==
    IF n = 0 THEN 0 ELSE StreamBit(bytes, p) + 2 * StreamField(bytes, p + 1, n - 1)

\* the symbols of code length n, ascending
SymbolsOfLength(lens, n) ==
    SelectSeq([k \in 1..Len(lens) |-> k - 1], LAMBDA sym : lens[sym + 1] = n)

\* the decoding table of a canonical code: for each length its symbols in code order
CanonicalTable(lens) == [n \in 1..15 |-> SymbolsOfLength(lens, n)] \o <<>>

\* One symbol of the canonical code with table `tab`, read from bit p:
\* <<symbol, next bit>>, the symbol -1 when no code matches or the stream ends.
RECURSIVE DecodeSymbolFrom(_, _, _, _, _, _)
DecodeSymbolFrom(tab, bytes, p, n, code, first) ==
    IF n > 15 \/ p >= BitCount(bytes) THEN <<-1, p>>
    ELSE LET c == code + StreamBit(bytes, p)
             count == Len(tab[n])
         IN  IF c - count < first
             THEN <<tab[n][c - first + 1], p + 1>>
             ELSE DecodeSymbolFrom(tab, bytes, p + 1, n + 1, 2 * c, 2 * (first + count))

DecodeSymbol(tab, bytes, p) == DecodeSymbolFrom(tab, bytes, p, 1, 0, 0)

\* A decoding step run `fuel` times, in two halves; a state that is done or
\* failed stays as it is.
RECURSIVE Repeatedly(_, _, _)
Repeatedly(step(_), st, fuel) ==
    IF ~st.ok \/ st.done \/ fuel <= 0 THEN st
    ELSE IF fuel = 1 THEN step(st)
    ELSE LET half == Repeatedly(step, st, fuel \div 2)
         IN  IF ~half.ok \/ half.done THEN half
             ELSE Repeatedly(step, half, fuel - (fuel \div 2))

Fail(st) == [st EXCEPT !.ok = FALSE]

Zeros(n) == [k \in 1..n |-> 0]

\* one code of the code length alphabet: a length, or a run (16, 17, 18)
CodeLengthStep(bytes, cl, total, st) ==
    LET d == DecodeSymbol(cl, bytes, st.p)
        sym == d[1]
        q == d[2]
        width == IF sym = 16 THEN 2 ELSE IF sym = 17 THEN 3 ELSE 7
        run == (IF sym = 18 THEN 11 ELSE 3) + StreamField(bytes, q, width)
        more == IF sym < 16 THEN <<sym>>
                ELSE IF sym = 16 THEN [k \in 1..run |-> st.lens[Len(st.lens)]]
                ELSE Zeros(run)
    IN  IF sym < 0 THEN Fail(st)
        ELSE IF sym >= 16 /\ q + width > BitCount(bytes) THEN Fail(st)
        ELSE IF sym = 16 /\ st.lens = <<>> THEN Fail(st)
        ELSE IF Len(st.lens) + Len(more) > total THEN Fail(st)
        ELSE [st EXCEPT !.lens = @ \o more,
                        !.p = IF sym < 16 THEN q ELSE q + width,
                        !.done = Len(st.lens) + Len(more) = total]

\* one literal, end of block, or length and distance pair
SymbolStep(bytes, lit, dist, st) ==
    LET d == DecodeSymbol(lit, bytes, st.p)
        sym == d[1]
        q == d[2]
        row == sym - 256
        q2 == q + RfcLengthExtra[row]
        len == RfcLengthBase[row] + StreamField(bytes, q, RfcLengthExtra[row])
        e == DecodeSymbol(dist, bytes, q2)
        drow == e[1] + 1
        q3 == e[2] + RfcDistExtra[drow]
        back == RfcDistBase[drow] + StreamField(bytes, e[2], RfcDistExtra[drow])
    IN  IF sym < 0 THEN Fail(st)
        ELSE IF sym < 256 THEN [st EXCEPT !.data = Append(@, sym), !.p = q]
        ELSE IF sym = 256 THEN [st EXCEPT !.p = q, !.done = TRUE]
        ELSE IF sym > 285 \/ q2 > BitCount(bytes) THEN Fail(st)
        ELSE IF e[1] < 0 \/ e[1] > 29 \/ q3 > BitCount(bytes) THEN Fail(st)
        ELSE IF back > Len(st.data) THEN Fail(st)
        ELSE [st EXCEPT !.data = CopyBack(@, len, back), !.p = q3]

\* the symbols of a block up to its end of block, from bit p
InflateCodes(bytes, lit, dist, p, data) ==
    LET littab == CanonicalTable(lit)
        disttab == CanonicalTable(dist)
        step(st) == SymbolStep(bytes, littab, disttab, st)
        st == Repeatedly(step, [ok |-> TRUE, done |-> FALSE, p |-> p, data |-> data],
                         BitCount(bytes) - p)
    IN  IF st.ok /\ st.done THEN st ELSE Fail(st)

\* a dynamic block: the code lengths, then the symbols
InflateDynamic(bytes, p, data) ==
    LET bad == [ok |-> FALSE, done |-> FALSE, p |-> p, data |-> data]
        nlen == StreamField(bytes, p, 5) + 257
        ndist == StreamField(bytes, p + 5, 5) + 1
        ncode == StreamField(bytes, p + 10, 4) + 4
        q == p + 14 + 3 * ncode
        place(sym) == CHOOSE k \in 1..19 : RfcCodeLengthOrder[k] = sym
        cl == [s \in 1..19 |-> IF place(s - 1) <= ncode
                               THEN StreamField(bytes, p + 14 + 3 * (place(s - 1) - 1), 3)
                               ELSE 0]
        cltab == CanonicalTable(cl)
        step(st) == CodeLengthStep(bytes, cltab, nlen + ndist, st)
        read == Repeatedly(step, [ok |-> TRUE, done |-> FALSE, p |-> q, lens |-> <<>>],
                           nlen + ndist)
        lit == SubSeq(read.lens, 1, nlen)
        dist == SubSeq(read.lens, nlen + 1, nlen + ndist)
    IN  IF p + 14 > BitCount(bytes) THEN bad
        ELSE IF nlen > 286 \/ ndist > 30 \/ q > BitCount(bytes) THEN bad
        ELSE IF ~(read.ok /\ read.done) THEN bad
        ELSE IF lit[257] = 0 THEN bad
        ELSE InflateCodes(bytes, lit, dist, read.p, data)

\* a stored block: LEN, its complement, then LEN bytes from the next byte boundary
InflateStored(bytes, p, data) ==
    LET bad == [ok |-> FALSE, done |-> FALSE, p |-> p, data |-> data]
        at == ((p + 7) \div 8) + 1
        size == bytes[at] + 256 * bytes[at + 1]
        comp == bytes[at + 2] + 256 * bytes[at + 3]
    IN  IF at + 3 > Len(bytes) THEN bad
        ELSE IF size + comp # Pow2(16) - 1 \/ at + 3 + size > Len(bytes) THEN bad
        ELSE [ok |-> TRUE, done |-> TRUE, p |-> 8 * (at + 3 + size),
              data |-> data \o SubSeq(bytes, at + 4, at + 3 + size)]

\* the blocks from bit p on, up to the one whose BFINAL is set
RECURSIVE InflateBlocks(_, _, _)
InflateBlocks(bytes, p, data) ==
    IF p + 3 > BitCount(bytes) THEN [ok |-> FALSE, done |-> FALSE, p |-> p, data |-> data]
    ELSE LET final == StreamBit(bytes, p)
             type == StreamField(bytes, p + 1, 2)
             blk == IF type = 0 THEN InflateStored(bytes, p + 3, data)
                    ELSE IF type = 1
                         THEN InflateCodes(bytes, RfcFixedLiteralLengths,
                                           RfcFixedDistLengths, p + 3, data)
                    ELSE IF type = 2 THEN InflateDynamic(bytes, p + 3, data)
                    ELSE [ok |-> FALSE, done |-> FALSE, p |-> p, data |-> data]
         IN  IF ~blk.ok \/ final = 1 THEN blk
             ELSE InflateBlocks(bytes, blk.p, blk.data)

\* the decoded bytes, and whether the stream was a valid one
Inflate(bytes) == InflateBlocks(bytes, 0, <<>>)


(***************************************************************************)
(* C1: when deflate returns, a conforming RFC 1951 decoder accepts the     *)
(* bytes the sink received and decodes them to exactly the input file.     *)
(***************************************************************************)
C1_RoundTrip ==
    pc = "returned" => LET decoded == Inflate(out)
                       IN  decoded.ok /\ decoded.data = file

\* a returned run of two blocks, one of each kind, whose file holds a long copy
C1_Witness ==
    /\ pc = "returned"
    /\ Len(blocks) = 2
    /\ blocks[1].kind = "DynamicCodes"
    /\ blocks[2].kind = "FixedCodes"
    /\ Len(file) > 258
    /\ Inflate(out).data = file


(***************************************************************************)
(* Vocabulary of the claims.                                               *)
(***************************************************************************)
\* the write_bits calls the step made
NewCalls == SubSeq(calls', Len(calls) + 1, Len(calls'))

\* the write_bits call that writes symbol sym of a tree
CodeCall(tree, sym) == <<U32(tree[sym + 1].code), tree[sym + 1].length>>

\* a handler of the deflate loop ran and returned
BlockBegun == pc = "loop" /\ pc' = "loop" /\ i' = i + 1
TokenWritten == pc = "loop" /\ pc' = "loop" /\ i' = i /\ j' = j + 1
Terminated == pc = "loop" /\ pc' = "returned"

\* the write_bits calls that begin a block of a kind, after the end of block
PreambleCalls(kind) == IF kind = "FixedCodes" THEN 3 ELSE 3 + 3 + 19 + 286 + 30

(***************************************************************************)
(* C2: after a write_bits call returned, fewer than 8 bits are buffered.   *)
(* (pc = "loop": the last handler, and so its last write_bits call,        *)
(* returned.)                                                              *)
(***************************************************************************)
C2_BufferedBitsBelow8 ==
    (pc = "loop" /\ calls # <<>>) => curr_full_bits < 8

\* a 16 bit write on top of 7 buffered bits (3 of the header, 4 of a call)
\* returned: two bytes left, 7 bits stay
C2_Witness ==
    /\ pc = "loop"
    /\ Len(calls) = 5
    /\ calls[4][2] = 4
    /\ calls[5][2] = 16
    /\ curr_full_bits = 7
    /\ Len(out) = 2

(***************************************************************************)
(* C3: after write_bits(value_i, n_i) calls and the teardown, the sink     *)
(* holds the low n_i bits of each value_i in call order, least significant *)
(* bit first, packed from bit 0 of each byte, the last byte padded with    *)
(* zeros.  The calls are all that the writer made: the three header calls  *)
(* of the block begun, the calls in between, the teardown's end of block.  *)
(* As claimed, for any values and bit counts: C3_AnyValues.  As the code   *)
(* has it, for bit counts of at most 16 and values below 2^n_i, on a run   *)
(* that returned: C3_PackedLowBits.                                        *)
(***************************************************************************)
\* bit b of a u32
BitOf(v, b) == IF b < 16 THEN (v[2] \div Pow2(b)) % 2 ELSE (v[1] \div Pow2(b - 16)) % 2

\* the low n bits of each call's value, in call order
RECURSIVE LowBitsOfCalls(_, _)
LowBitsOfCalls(log, k) ==
    IF k > Len(log) THEN <<>>
    ELSE [b \in 1..log[k][2] |-> BitOf(log[k][1], b - 1)] \o LowBitsOfCalls(log, k + 1)

BitAt(bits, q) == IF q <= Len(bits) THEN bits[q] ELSE 0

PackedBytes(bits) ==
    [m \in 1..((Len(bits) + 7) \div 8) |->
        BitAt(bits, 8 * m - 7) + 2 * BitAt(bits, 8 * m - 6) + 4 * BitAt(bits, 8 * m - 5)
        + 8 * BitAt(bits, 8 * m - 4) + 16 * BitAt(bits, 8 * m - 3)
        + 32 * BitAt(bits, 8 * m - 2) + 64 * BitAt(bits, 8 * m - 1)
        + 128 * BitAt(bits, 8 * m)]

ValuesFit == \A k \in 1..Len(calls) : Nat32(calls[k][1]) < Pow2(calls[k][2])

CountsFit == \A k \in 1..Len(calls) : calls[k][2] <= 16

C3_AnyValues ==
    pc = "returned" => out = PackedBytes(LowBitsOfCalls(calls, 1))

C3_PackedLowBits ==
    (pc = "returned" /\ ValuesFit /\ CountsFit) =>
        out = PackedBytes(LowBitsOfCalls(calls, 1))

\* the header, three calls with fitting values, and the teardown's 7 bit end of
\* block: 36 bits in five bytes
C3_Witness ==
    /\ pc = "returned"
    /\ ValuesFit
    /\ CountsFit
    /\ Len(calls) = 7
    /\ calls[4] = <<U32(1), 1>>
    /\ calls[5] = <<U32(43690), 16>>
    /\ calls[6] = <<U32(1), 9>>
    /\ calls[7] = CodeCall(LiteralFixedTree, 256)
    /\ Len(out) = 5
    /\ out = PackedBytes(LowBitsOfCalls(calls, 1))

\* the value fits its 26 bits, and its top bit is shifted past bit 31
C3_WideCall ==
    (pc = "returned" /\ ValuesFit) => out = PackedBytes(LowBitsOfCalls(calls, 1))

(***************************************************************************)
(* C4: on every run without a panic, a block's end-of-block symbol (256 of *)
(* the literal tree installed for it) is the first write of the handler    *)
(* that begins the next block, before the header bits, and the only write  *)
(* of the teardown that follows the last block; the handlers make no other *)
(* write of it, and the literal tree changes only in a handler that wrote  *)
(* it first.                                                               *)
(***************************************************************************)
C4_Step ==
    /\ (BlockBegun /\ in_block) =>
          /\ NewCalls[1] = CodeCall(literal_tree, 256)
          /\ Len(NewCalls) = 1 + PreambleCalls(blocks[i'].kind)
    /\ (BlockBegun /\ ~in_block) =>
          /\ i = 0
          /\ Len(NewCalls) = PreambleCalls(blocks[i'].kind)
    /\ Terminated => NewCalls = <<CodeCall(literal_tree, 256)>>
    /\ TokenWritten =>
          LET token == blocks[i].tokens[j + 1]
          IN  IF token[1] = "Literal"
              THEN NewCalls = <<CodeCall(literal_tree, token[2])>>
              ELSE /\ Len(NewCalls) = 4
                   /\ NewCalls[1] = CodeCall(literal_tree,
                          LEN_TO_CODE[FirstRow(LEN_TO_CODE, token[2])][4])
                   /\ NewCalls[3] = CodeCall(distance_tree,
                          DIST_TO_CODE[FirstRow(DIST_TO_CODE, token[3])][4])
    /\ (literal_tree' # literal_tree) =>
          /\ BlockBegun
          /\ in_block => NewCalls[1] = CodeCall(literal_tree, 256)

C4_EndOfBlockOncePerBlock == [][C4_Step]_vars

\* a returned run of two non-empty blocks whose last write is the end of block
C4_Witness ==
    /\ pc = "returned"
    /\ Len(blocks) = 2
    /\ blocks[1].kind = "FixedCodes"
    /\ blocks[2].kind = "DynamicCodes"
    /\ blocks[1].tokens # <<>>
    /\ blocks[2].tokens # <<>>
    /\ calls[Len(calls)] = CodeCall(literal_tree, 256)

(***************************************************************************)
(* C5: the handler that begins a block writes, right after the previous    *)
(* block's end of block, the bit BFINAL (1 exactly for the last block of   *)
(* the list), then 1, 0 for a fixed block or 0, 1 for a dynamic block; so  *)
(* bit 0 of a single block stream is 1.                                    *)
(***************************************************************************)
C5_Step ==
    BlockBegun =>
        LET h == IF in_block THEN 1 ELSE 0
            bfinal == IF i' = Len(blocks) THEN 1 ELSE 0
        IN  /\ NewCalls[h + 1] = <<U32(bfinal), 1>>
            /\ blocks[i'].kind = "FixedCodes" =>
                  /\ NewCalls[h + 2] = <<U32(1), 1>>
                  /\ NewCalls[h + 3] = <<U32(0), 1>>
            /\ blocks[i'].kind = "DynamicCodes" =>
                  /\ NewCalls[h + 2] = <<U32(0), 1>>
                  /\ NewCalls[h + 3] = <<U32(1), 1>>

C5_FirstBit ==
    (pc = "returned" /\ Len(blocks) = 1) => StreamBit(out, 0) = 1

C5_BlockHeader == [][C5_Step]_vars /\ []C5_FirstBit

\* a returned run of a dynamic block that is not the last and a fixed one that is
C5_Witness ==
    /\ pc = "returned"
    /\ Len(blocks) = 2
    /\ blocks[1].kind = "DynamicCodes"
    /\ blocks[2].kind = "FixedCodes"
    /\ StreamBit(out, 0) = 0
    /\ StreamField(out, 1, 2) = 2

(***************************************************************************)
(* C6: the teardown after the last token writes the end of block of the    *)
(* installed literal tree and then, when bits remain buffered, one byte    *)
(* that holds them below zero bits, and no byte otherwise; the sink        *)
(* receives nothing after that.                                            *)
(***************************************************************************)
C6_Step ==
    /\ Terminated =>
          LET total == 8 * Len(out) + curr_full_bits + literal_tree[257].length
          IN  /\ NewCalls = <<CodeCall(literal_tree, 256)>>
              /\ Len(out') = (total + 7) \div 8
              /\ attempts' - attempts = Len(out') - Len(out)
              /\ curr_full_bits' = total % 8
              /\ (total % 8 # 0) => out'[Len(out')] < Pow2(total % 8)
    /\ pc = "returned" => (out' = out /\ attempts' = attempts)

C6_Termination == [][C6_Step]_vars

\* teardown left a partial byte behind a full one
C6_Witness ==
    /\ pc = "returned"
    /\ curr_full_bits = 3
    /\ Len(out) >= 2
    /\ out[Len(out)] < 8
    /\ out[Len(out)] > 0

(***************************************************************************)
(* C7: a run in which a write to the sink failed ends by handing the       *)
(* failure back to the caller as a value; it does not end in a panic while *)
(* the failure is unwrapped, nor in an abort.                              *)
(***************************************************************************)
C7_FailureReturned ==
    failed_at # 0 => pc \notin {"unwind", "panicked", "aborted"}

(***************************************************************************)
(* C8: once a write to the sink has failed, the sink sees no further write *)
(* attempt, and the teardown that follows makes no write_bits call.        *)
(***************************************************************************)
C8_Step ==
    failed_at # 0 => (attempts' = attempts /\ calls' = calls)

C8_NoWriteAfterFailure == [][C8_Step]_vars

(***************************************************************************)
(* C9: the first-match lookup of write finds, for every length 3..258 and  *)
(* every distance 1..32768, the one row of its table with                  *)
(* start <= value < end, and value - start < 2^extra_bits in that row:     *)
(* each table has exactly one row that holds the value, the extra value    *)
(* fits that row's extra bits, and the write_bits calls write makes are    *)
(* those of that row.                                                      *)
(***************************************************************************)
\* the rows whose range holds v
RowsHolding(table, v) == {k \in 1..Len(table) : table[k][1] <= v /\ v < table[k][2]}

\* the one row r of the table holds v, v - start fits its extra bits, and, once
\* write has returned, its calls from position `at` are those of row r
C9_Row(table, tree, v, at) ==
    /\ Cardinality(RowsHolding(table, v)) = 1
    /\ \A r \in RowsHolding(table, v) :
          /\ table[r][1] <= v
          /\ v < table[r][2]
          /\ v - table[r][1] < Pow2(table[r][3])
          /\ (pc = "loop" /\ j = 1) =>
                /\ Len(calls) = 7
                /\ calls[at] = CodeCall(tree, table[r][4])
                /\ calls[at + 1] = <<U32(v - table[r][1]), table[r][3]>>

C9_UniqueRow ==
    \A b \in 1..Len(blocks) : \A t \in 1..Len(blocks[b].tokens) :
        LET token == blocks[b].tokens[t]
        IN  token[1] = "Repeat" =>
                /\ C9_Row(LEN_TO_CODE, LiteralFixedTree, token[2], 4)
                /\ C9_Row(DIST_TO_CODE, DistanceFixedTree, token[3], 6)

\* the longest length was written from the last row, which has no extra bits
C9_Witness ==
    /\ pc = "loop"
    /\ j = 1
    /\ blocks[1].tokens = <<Repeat(258, 1)>>
    /\ RowsHolding(LEN_TO_CODE, 258) = {29}
    /\ LEN_TO_CODE[29] = <<258, 259, 0, 285>>
    /\ calls[4] = CodeCall(LiteralFixedTree, 285)
    /\ calls[5] = <<U32(0), 0>>

\* the longest distance was written from the last row, in 13 extra bits
C9_WitnessDist ==
    /\ pc = "loop"
    /\ j = 1
    /\ blocks[1].tokens = <<Repeat(3, 32768)>>
    /\ RowsHolding(DIST_TO_CODE, 32768) = {30}
    /\ calls[6] = CodeCall(DistanceFixedTree, 29)
    /\ calls[7] = <<U32(8191), 13>>

(***************************************************************************)
(* C10: a run that was handed a Repeat token with len outside 3..258 or    *)
(* dist outside 1..32768 does not return as a success.                     *)
(***************************************************************************)
OutOfRange(token) ==
    /\ token[1] = "Repeat"
    /\ (token[2] \notin 3..258 \/ token[3] \notin 1..32768)

C10_OutOfRangeRejected ==
    pc = "returned" =>
        \A b \in 1..Len(blocks) :
            \A t \in 1..Len(blocks[b].tokens) : ~OutOfRange(blocks[b].tokens[t])

(***************************************************************************)
(* C11: write of Repeat(len, dist) with len in 3..258 and dist in 1..32768 *)
(* makes exactly four write_bits calls: the literal tree's code of the     *)
(* code of the one LEN_TO_CODE row that holds len, len - len_start in that *)
(* row's extra bits, the distance tree's code of the code of the one       *)
(* DIST_TO_CODE row that holds dist, dist - dist_start in that row's extra *)
(* bits; len = 258 goes out as code 285 with 0 extra bits.                 *)
(***************************************************************************)
C11_Step ==
    (TokenWritten /\ blocks[i].tokens[j + 1][1] = "Repeat") =>
        LET len == blocks[i].tokens[j + 1][2]
            dist == blocks[i].tokens[j + 1][3]
            len_rows == RowsHolding(LEN_TO_CODE, len)
            dist_rows == RowsHolding(DIST_TO_CODE, dist)
        IN  /\ Cardinality(len_rows) = 1
            /\ Cardinality(dist_rows) = 1
            /\ \A lr \in len_rows : \A dr \in dist_rows :
                  NewCalls = << CodeCall(literal_tree, LEN_TO_CODE[lr][4]),
                                <<U32(len - LEN_TO_CODE[lr][1]), LEN_TO_CODE[lr][3]>>,
                                CodeCall(distance_tree, DIST_TO_CODE[dr][4]),
                                <<U32(dist - DIST_TO_CODE[dr][1]), DIST_TO_CODE[dr][3]>> >>
            /\ len = 258 =>
                  /\ NewCalls[1] = CodeCall(literal_tree, 285)
                  /\ NewCalls[2] = <<U32(0), 0>>

C11_RepeatFourCalls == [][C11_Step]_vars

\* Repeat(258, 32768) was written under fixed codes: code 285 with no extra bits,
\* then distance code 29 with 8191 in 13 bits
C11_Witness ==
    /\ pc = "loop"
    /\ i = 1
    /\ j = 1
    /\ blocks[1].kind = "FixedCodes"
    /\ blocks[1].tokens = <<Repeat(258, 32768)>>
    /\ Len(calls) = 7
    /\ SubSeq(calls, 4, 7) = << CodeCall(LiteralFixedTree, 285), <<U32(0), 0>>,
                                CodeCall(DistanceFixedTree, 29), <<U32(8191), 13>> >>

(***************************************************************************)
(* C12: the handler that begins a dynamic block writes, right after the    *)
(* three header bits: 29 in 5 bits, 29 in 5 bits, 15 in 4 bits; nineteen   *)
(* 3 bit fields in the order 16,17,18,0,8,7,9,6,10,5,11,4,12,3,13,2,14,1,  *)
(* 15, holding 0 for 16, 17, 18 and 4 for 0..15; the 286 literal/length    *)
(* code lengths and then the 30 distance code lengths, each as its 4 bit   *)
(* code of the code length tree; and installs the block's trees once all   *)
(* of that is written: a handler that panics on the way installs none.     *)
(***************************************************************************)
C12_Order == <<16, 17, 18, 0, 8, 7, 9, 6, 10, 5, 11, 4, 12, 3, 13, 2, 14, 1, 15>>

C12_Step ==
    /\ (BlockBegun /\ blocks[i'].kind = "DynamicCodes") =>
          LET h == (IF in_block THEN 1 ELSE 0) + 3
              b == blocks[i']
          IN  /\ Len(NewCalls) = h + 3 + 19 + 286 + 30
              /\ NewCalls[h + 1] = <<U32(29), 5>>
              /\ NewCalls[h + 2] = <<U32(29), 5>>
              /\ NewCalls[h + 3] = <<U32(15), 4>>
              /\ \A k \in 1..19 :
                    NewCalls[h + 3 + k] = <<U32(IF C12_Order[k] >= 16 THEN 0 ELSE 4), 3>>
              /\ \A k \in 1..286 :
                    /\ NewCalls[h + 22 + k] = CodeCall(CodeLenTree, b.literal_code_lens[k])
                    /\ NewCalls[h + 22 + k][2] = 4
              /\ \A k \in 1..30 :
                    /\ NewCalls[h + 308 + k] = CodeCall(CodeLenTree, b.distance_code_lens[k])
                    /\ NewCalls[h + 308 + k][2] = 4
              /\ literal_tree' = calc_codes(b.literal_code_lens)
              /\ distance_tree' = calc_codes(b.distance_code_lens)
    /\ (pc = "loop" /\ i' = i + 1 /\ pc' = "unwind") =>
          (literal_tree' = literal_tree /\ distance_tree' = distance_tree)

C12_DynamicPreamble == [][C12_Step]_vars

\* a dynamic block was begun as the first block: 341 calls, the trees installed
C12_Witness ==
    /\ pc = "loop"
    /\ i = 1
    /\ j = 0
    /\ blocks[1].kind = "DynamicCodes"
    /\ Len(calls) = 341
    /\ calls[2] = <<U32(0), 1>>
    /\ calls[3] = <<U32(1), 1>>
    /\ calls[4] = <<U32(29), 5>>
    /\ calls[6] = <<U32(15), 4>>
    /\ calls[7] = <<U32(0), 3>>
    /\ calls[10] = <<U32(4), 3>>
    /\ literal_tree = calc_codes(blocks[1].literal_code_lens)
    /\ Len(literal_tree) = 286

(***************************************************************************)
(* C13: on the exit of deflate through the panic of a failed sink write,   *)
(* as on its return, the teardown makes the end of block write of the      *)
(* installed literal tree and runs on to the end of its final flush, which *)
(* leaves fewer than 8 bits buffered.                                      *)
(***************************************************************************)
C13_Step ==
    (pc = "unwind" /\ pc' # "unwind") =>
        /\ Len(literal_tree) > 256
        /\ NewCalls = <<CodeCall(literal_tree, 256)>>
        /\ pc' = "panicked"
        /\ curr_full_bits' < 8

C13_TeardownOnEveryExit == [][C13_Step]_vars

(***************************************************************************)
(* C14: deflate on an empty block list ends by returning, its teardown     *)
(* having written no byte to the sink.                                     *)
(***************************************************************************)
C14_EmptyTeardown ==
    (blocks = <<>> /\ pc # "loop") => (pc = "returned" /\ out = <<>> /\ attempts = 0)

(***************************************************************************)
(* C15: when every write_bits call so far passed a value below 2^len,      *)
(* after a call returned the accumulator has no bit set at or above the    *)
(* number of buffered bits: curr_bytes < 2^curr_full_bits.                 *)
(***************************************************************************)
C15_NoBitAboveCount ==
    (pc = "loop" /\ ValuesFit) => Nat32(curr_bytes) < Pow2(curr_full_bits)

\* after the 3 header bits, 9 bits and then 16 bits went through: three bytes
\* left, four bits stay, two of them set
C15_Witness ==
    /\ pc = "loop"
    /\ Len(calls) = 5
    /\ calls[4] = <<U32(1), 9>>
    /\ calls[5] = <<U32(43690), 16>>
    /\ Len(out) = 3
    /\ curr_full_bits = 4
    /\ curr_bytes = U32(10)

(***************************************************************************)
(* C16: a write of a token, whether it returns or panics, leaves the       *)
(* literal tree, the distance tree and in_block as they are; a tree        *)
(* changes only in a step that begins a block; in_block, once true, stays  *)
(* true.                                                                   *)
(***************************************************************************)
C16_Step ==
    /\ (pc = "loop" /\ i' = i /\ j' = j + 1) =>
          UNCHANGED <<literal_tree, distance_tree, in_block>>
    /\ (literal_tree' # literal_tree \/ distance_tree' # distance_tree) =>
          (pc = "loop" /\ i' = i + 1)
    /\ in_block => in_block'

C16_WriteFrame == [][C16_Step]_vars

\* a token was written in the second block, whose fixed trees replaced the first
\* block's fitted ones
C16_Witness ==
    /\ pc = "loop"
    /\ Len(blocks) = 2
    /\ blocks[1].kind = "DynamicCodes"
    /\ blocks[2].kind = "FixedCodes"
    /\ i = 2
    /\ j = 1
    /\ in_block
    /\ literal_tree = LiteralFixedTree
    /\ distance_tree = DistanceFixedTree

(***************************************************************************)
(* C17: every write_bits call of the emitter (header and preamble fields,  *)
(* Huffman codes, extra bits of both tables) passes at most 16 bits and a  *)
(* value that fits them; no call panics on an arithmetic overflow, so a    *)
(* run panics only after a sink failure; and no bit is lost in the         *)
(* accumulator: a run that returned delivered all bits of all its calls.   *)
(***************************************************************************)
\* the low len bits of the calls lo..hi of a log, in call order
RECURSIVE BitsOfCalls(_, _, _)
BitsOfCalls(log, lo, hi) ==
    IF lo > hi THEN <<>>
    ELSE IF lo = hi THEN [b \in 1..log[lo][2] |-> BitOf(log[lo][1], b - 1)]
    ELSE BitsOfCalls(log, lo, (lo + hi) \div 2)
         \o BitsOfCalls(log, (lo + hi) \div 2 + 1, hi)

C17_NoOverflow ==
    /\ \A k \in 1..Len(calls) :
          /\ calls[k][2] <= 16
          /\ calls[k][1][1] = 0
          /\ calls[k][1][2] < Pow2(calls[k][2])
    /\ pc \in {"unwind", "panicked", "aborted"} => failed_at # 0
    /\ pc = "returned" =>
          LET bits == BitsOfCalls(calls, 1, Len(calls))
          IN  out = PackedBytes(bits)

\* a build with overflow checks returned from a block whose token took the
\* widest extra bits field, 13 bits
C17_Witness ==
    /\ pc = "returned"
    /\ overflow_checks
    /\ blocks[1].kind = "DynamicCodes"
    /\ blocks[1].tokens = <<Repeat(258, 32768)>>
    /\ calls[Len(calls) - 1] = <<U32(8191), 13>>
    /\ out = PackedBytes(BitsOfCalls(calls, 1, Len(calls)))

=============================================================================
